---------------------------- MODULE Spec2Model ----------------------------
(***************************************************************************)
(* AirportSearch API: the request path of GET /airportByName/{name}.       *)
(*                                                                         *)
(* A request is served by a worker in the steps FastAPI runs them:         *)
(*   get_db -> verify_api_key -> get_airports_by_name -> response          *)
(*   serialization (AirportSchema) -> get_db's finally -> response sent.   *)
(* The store is the relational data of app/models.py.  Text columns are    *)
(* sequences of one-character strings, so that ILIKE is computed.          *)
(***************************************************************************)
EXTENDS Integers, Sequences, FiniteSets

VARIABLES
    airports,       \* table airports      (models.Airport)
    navaids,        \* table navaids       (models.Navaid)
    runways,        \* table runways       (models.Runway)
    frequencies,    \* table frequencies   (models.Frequency)
    airport_types,  \* table airport_types (models.AirportType)
    countries,      \* table countries     (models.Country)
    regions,        \* table regions       (models.Region)
    api_keys,       \* table api_keys      (models.APIKey)
    clients,        \* the requests callers send: header x-api-key, path name
    request,        \* per worker: the request it is serving
    sessions,       \* the Session objects made by SessionLocal()
    decided         \* history, read by no step: per observed key, what
                    \* verify_api_key decided in the finished requests

store == <<airports, navaids, runways, frequencies,
           airport_types, countries, regions>>
vars  == <<airports, navaids, runways, frequencies, airport_types,
           countries, regions, api_keys, clients, request, sessions,
           decided>>

---------------------------------------------------------------------------
(* Bounds *)

MaxRows == 3

MaxNameLen == 1

MaxWorkers == 2

MaxSessions == 2

MaxHistory == 2

---------------------------------------------------------------------------
(* Values *)

\* SQL NULL / Python None in a text column
NULL == <<"NULL">>

\* no x-api-key header: APIKeyHeader(auto_error=False) hands None
None == "None"

\* characters of a path parameter: a letter and the two LIKE wildcards
Chars == {"A", "_", "%"}

lower(c) == IF c = "A" THEN "a" ELSE c

LowerStr(s) == [i \in 1..Len(s) |-> lower(s[i])]

StringsUpTo(n) == UNION {[1..k -> Chars] : k \in 1..n}

\* the {name} path segment is never empty: the route would not match
Names == StringsUpTo(MaxNameLen)

HeaderValues == {None, "", "k1", "k2"}

\* the keys that were ever issued; "k2" is a key callers made up
StoredKeys == {"k1"}

\* a nullable Boolean column: True, False or NULL
SqlBooleans == {"true", "false", "null"}

Workers == 1..MaxWorkers

SessionIds == 1..MaxSessions

---------------------------------------------------------------------------
(* Rows the store may hold *)

AirportPool ==
    { [ident |-> <<"A">>, name |-> <<"a", "%">>,
       type |-> <<"T">>, iso_country |-> <<"U">>, iso_region |-> <<"N">>],
      [ident |-> <<"_">>, name |-> NULL,
       type |-> NULL, iso_country |-> <<"U">>, iso_region |-> NULL] }

NavaidPool ==
    { [id |-> 1, ident |-> <<"V">>,      associated_airport |-> <<"A">>],
      [id |-> 2, ident |-> <<"_">>, associated_airport |-> <<"A">>],
      [id |-> 3, ident |-> <<"A">>,      associated_airport |-> NULL],
      [id |-> 4, ident |-> <<"A">>,      associated_airport |-> <<>>] }

RunwayPool == { [id |-> 1, airport_ref |-> 2, airport_ident |-> <<"A">>] }

FrequencyPool == { [id |-> 1, airport_ref |-> 1, airport_ident |-> <<"_">>] }

AirportTypePool == { [code |-> <<"T">>] }

CountryPool == { [code |-> <<"U">>] }

RegionPool == { [code |-> <<"N">>] }

APIKeyPool == [key : StoredKeys, is_active : SqlBooleans]

\* Column(Text, unique=True): no two rows with one key
UniqueKey(rows) == \A r1, r2 \in rows : r1.key = r2.key => r1 = r2

APIKeyTables == {t \in SUBSET APIKeyPool : UniqueKey(t)}


---------------------------------------------------------------------------
(* The airport query: SELECT ... WHERE name ILIKE :p OR ident ILIKE :p *)

\* f"%{name}%"
like_pattern(name) == <<"%">> \o name \o <<"%">>

\* SQL LIKE as the store evaluates it: "%" matches any run of characters,
\* "_" any one character, "\\" takes the next pattern character literally.
\* The pattern is a bound parameter; its text is never escaped.
\* m[i, j]: the text from position i on matches the pattern from position
\* j on
Like(s, p) ==
    LET m[i \in 1..(Len(s) + 1), j \in 1..(Len(p) + 1)] ==
            IF j > Len(p) THEN i > Len(s)
            ELSE IF p[j] = "%" THEN
                \/ m[i, j + 1]
                \/ i <= Len(s) /\ m[i + 1, j]
            ELSE IF p[j] = "_" THEN
                i <= Len(s) /\ m[i + 1, j + 1]
            ELSE IF p[j] = "\\" THEN
                /\ j < Len(p)
                /\ i <= Len(s)
                /\ s[i] = p[j + 1]
                /\ m[i + 1, j + 2]
            ELSE
                i <= Len(s) /\ s[i] = p[j] /\ m[i + 1, j + 1]
    IN  m[1, 1]

\* column.ilike(pattern): case-insensitive LIKE; NULL for a NULL column
ilike(column, pattern) ==
    IF column = NULL THEN "null"
    ELSE IF Like(LowerStr(column), LowerStr(pattern)) THEN "true"
    ELSE "false"

\* SQL three-valued OR
SqlOr(x, y) ==
    IF x = "true" \/ y = "true" THEN "true"
    ELSE IF x = "null" \/ y = "null" THEN "null"
    ELSE "false"

\* .where(Airport.name.ilike(p) | Airport.ident.ilike(p)): rows for which
\* the condition is true are selected
WhereClause(a, pattern) ==
    SqlOr(ilike(a.name, pattern), ilike(a.ident, pattern)) = "true"

\* rows of a table in the order the store hands them (fixed for a snapshot)
RECURSIVE StorageOrder(_)
StorageOrder(rows) ==
    IF rows = {} THEN <<>>
    ELSE LET r == CHOOSE x \in rows : TRUE
         IN  <<r>> \o StorageOrder(rows \ {r})

\* the joined table whatever the column holds
CrossJoin(table, column) == table

\* many-to-one relationship on a ForeignKey column: LEFT OUTER JOIN
\* table ON table.code = column; no row joins a NULL column
ManyToOne(table, column) ==
    {t \in table : column # NULL /\ t.code = column}

\* the navaid joined on its own ident
NavaidJoinOnIdent(a, n) == a.ident = n.ident

\* Airport.navaids: primaryjoin Airport.ident == foreign(Navaid.associated_airport)
NavaidJoin(a, n) ==
    n.associated_airport # NULL /\ a.ident = n.associated_airport

\* Airport.runways / Runway.airport: foreign(Runway.airport_ident) == Airport.ident
RunwayJoin(a, r) ==
    r.airport_ident # NULL /\ r.airport_ident = a.ident

\* Airport.frequencies / Frequency.airport
FrequencyJoin(a, f) ==
    f.airport_ident # NULL /\ f.airport_ident = a.ident

\* the rows one airport contributes to the joined result: one per joined
\* navaid, or a single row with no navaid (outer join)
JoinedRowsOf(a) ==
    LET ns   == StorageOrder({n \in navaids : NavaidJoin(a, n)})
        base == [Airport      |-> a,
                 airport_type |-> ManyToOne(airport_types, a.type),
                 country      |-> ManyToOne(countries, a.iso_country),
                 region       |-> ManyToOne(regions, a.iso_region),
                 navaid       |-> {}]
    IN  IF ns = <<>> THEN <<base>>
        ELSE [i \in 1..Len(ns) |-> [base EXCEPT !.navaid = {ns[i]}]]

RECURSIVE Concat(_)
Concat(ss) == IF ss = <<>> THEN <<>> ELSE Head(ss) \o Concat(Tail(ss))

\* select(Airport).where(...): the airports the statement selects
Select(pattern) == {a \in airports : WhereClause(a, pattern)}

\* db.execute(select(Airport).options(joinedload(...) ...)): the raw rows
\* of the selected airports, joined to their related rows
Execute(selected) ==
    LET matched == StorageOrder(selected)
    IN  Concat([i \in 1..Len(matched) |-> JoinedRowsOf(matched[i])])

\* the raw rows, not deduplicated
NotUnique(rows) == rows

\* Result.unique(): a row whose Airport entity was already returned is
\* dropped (entities are identified by primary key)
unique(rows) ==
    LET keep == {i \in 1..Len(rows) :
                    \A j \in 1..(i - 1) :
                        rows[j].Airport.ident # rows[i].Airport.ident}
        RECURSIVE Pick(_)
        Pick(i) == IF i > Len(rows) THEN <<>>
                   ELSE IF i \in keep THEN <<rows[i]>> \o Pick(i + 1)
                   ELSE Pick(i + 1)
    IN  Pick(1)

\* the Airport entity the ORM builds from the raw rows: its columns, the
\* joined-loaded scalars, and the navaids collection gathered over every
\* raw row of that entity.  runways and frequencies are not loaded.
Entity(row, raw) ==
    [ident        |-> row.Airport.ident,
     name         |-> row.Airport.name,
     type         |-> row.Airport.type,
     iso_country  |-> row.Airport.iso_country,
     iso_region   |-> row.Airport.iso_region,
     airport_type |-> row.airport_type,
     country      |-> row.country,
     region       |-> row.region,
     navaids      |-> UNION {raw[i].navaid : i \in
                        {j \in 1..Len(raw) :
                            raw[j].Airport.ident = row.Airport.ident}}]

\* result.unique().scalars().all()
ScalarsAll(raw) ==
    LET rows == unique(raw)
    IN  [i \in 1..Len(rows) |-> Entity(rows[i], raw)]

\* the collection left unloaded
RunwaysNotLoaded(e) == {}

\* lazy load of Airport.runways through the entity's session
LoadRunways(e) == {r \in runways : RunwayJoin(e, r)}

\* lazy load of Airport.frequencies through the entity's session
LoadFrequencies(e) == {f \in frequencies : FrequencyJoin(e, f)}

\* AirportSchema (orm_mode): the entity's fields, reading the lazy
\* collections on the way
AirportSchema(e) ==
    [ident        |-> e.ident,
     name         |-> e.name,
     type         |-> e.type,
     iso_country  |-> e.iso_country,
     iso_region   |-> e.iso_region,
     airport_type |-> e.airport_type,
     country      |-> e.country,
     region       |-> e.region,
     runways      |-> LoadRunways(e),
     frequencies  |-> LoadFrequencies(e),
     navaids      |-> e.navaids]

---------------------------------------------------------------------------
(* The auth gate *)

\* only the absent header taken as missing
IsNone(api_key) == api_key = None

\* "if not api_key": None or the empty string
NotApiKey(api_key) == api_key = None \/ api_key = ""

\* the lookup without its is_active filter
QueryApiKeyAnyState(api_key) == {k \in api_keys : k.key = api_key}

\* the lookup with the last decision remembered: a key let through once is
\* let through for as long as its row exists
QueryApiKeyRemembered(api_key) ==
    {k \in api_keys :
        /\ k.key = api_key
        /\ \/ k.is_active = "true"
           \/ /\ api_key \in DOMAIN decided
              /\ decided[api_key] # <<>>
              /\ decided[api_key][Len(decided[api_key])] = "authorized"}

\* db.query(APIKey).filter(APIKey.key == api_key,
\*                         APIKey.is_active.is_(True)).first()
QueryApiKey(api_key) ==
    {k \in api_keys : k.key = api_key /\ k.is_active = "true"}

---------------------------------------------------------------------------
(* Requests, responses, sessions *)

NoResponse == [status |-> 0, detail |-> "", body |-> <<>>]

\* HTTPException(status_code=..., detail=...)
HTTPException(status_code, detail) ==
    [status |-> status_code, detail |-> detail, body |-> <<>>]

MissingKey == HTTPException(401, "Missing API key")

InvalidKey == HTTPException(401, "Invalid or inactive API key")

NotFound == HTTPException(404, "No airport found with that name or ident")

\* an exception of the store reaches no handler of the application
ServerError == HTTPException(500, "Internal Server Error")

\* response_model=list[AirportSchema]
Ok(airport_list) ==
    [status |-> 200, detail |-> "",
     body |-> [i \in 1..Len(airport_list) |-> AirportSchema(airport_list[i])]]

Idle == [pc |-> "idle", api_key |-> None, name |-> <<>>, db |-> 0,
         airport_list |-> <<>>, response |-> NoResponse]

NoSession == [state |-> "none", closes |-> 0, log |-> {}]

\* SessionLocal(): a Session object that did not exist before
SessionLocal == CHOOSE s \in SessionIds :
                    /\ sessions[s].state = "none"
                    /\ \A t \in SessionIds : sessions[t].state = "none" => s <= t

\* close() after the yield without try/finally: skipped by an exception
CloseUnlessRaised(session, raised) ==
    IF raised THEN session
    ELSE [session EXCEPT !.state = "closed", !.closes = @ + 1]

\* the get_db generator leaving its try block, normally or by an exception
\* thrown into it: "finally: db.close()"
get_db_finally(session, raised) ==
    [session EXCEPT !.state = "closed", !.closes = @ + 1]

\* the route handler called whatever the dependency did
HandlerAlways(raised) == "get_airports_by_name"

\* app = FastAPI(dependencies=[Depends(verify_api_key)]): the route handler
\* is called only when the dependency returned; an exception in it ends the
\* request in the cleanup of the dependencies already entered
AfterDependency(raised) ==
    IF raised THEN "finally" ELSE "get_airports_by_name"

\* the empty result let through
NeverEmpty(airport_list) == FALSE

\* "if not airports"
NoAirports(airport_list) == airport_list = <<>>

\* the request's Session executes a statement against a table
Executes(w, table) ==
    [sessions EXCEPT ![request[w].db].log = @ \cup {table}]

\* what verify_api_key decided in the request of worker w: the route handler
\* ran its query only if the key was let through; a 401 is a rejection; an
\* exception of the key lookup is no decision
Decision(w) ==
    IF "airports" \in sessions[request[w].db].log THEN "authorized"
    ELSE IF request[w].response.status = 401 THEN "rejected"
    ELSE "none"

\* the last MaxHistory entries of a history
Latest(h) == IF Len(h) <= MaxHistory THEN h
             ELSE SubSeq(h, Len(h) - MaxHistory + 1, Len(h))

\* the history after the request of worker w has finished
Remember(w) ==
    [k \in DOMAIN decided |->
        IF k = request[w].api_key /\ Decision(w) # "none"
        THEN Latest(Append(decided[k], Decision(w)))
        ELSE decided[k]]

---------------------------------------------------------------------------
(* Steps of a request *)

\* a caller sends GET /airportByName/{name}, with or without x-api-key, and
\* the first dependency of the request, get_db, runs up to its yield; both
\* Depends(get_db) of a request share the session it yields
GetDb(w) ==
    /\ request[w].pc = "idle"
    /\ \E s \in SessionIds : sessions[s].state = "none"
    /\ \E c \in clients :
          LET db == SessionLocal
          IN  /\ sessions' = [sessions EXCEPT ![db] =
                                 [state |-> "open", closes |-> 0, log |-> {}]]
              /\ request' = [request EXCEPT ![w] =
                                 [Idle EXCEPT !.pc = "verify_api_key",
                                              !.api_key = c.api_key,
                                              !.name = c.name,
                                              !.db = db]]
    /\ UNCHANGED <<store, api_keys, clients, decided>>

\* verify_api_key
VerifyApiKey(w) ==
    /\ request[w].pc = "verify_api_key"
    /\ IF NotApiKey(request[w].api_key)
       THEN /\ request' = [request EXCEPT ![w].response = MissingKey,
                                          ![w].pc = AfterDependency(TRUE)]
            /\ UNCHANGED sessions
       ELSE /\ sessions' = Executes(w, "api_keys")
            /\ \E store_fails \in BOOLEAN :
                  IF store_fails
                  THEN request' = [request EXCEPT
                                      ![w].response = ServerError,
                                      ![w].pc = AfterDependency(TRUE)]
                  ELSE IF QueryApiKey(request[w].api_key) = {}
                  THEN request' = [request EXCEPT
                                      ![w].response = InvalidKey,
                                      ![w].pc = AfterDependency(TRUE)]
                  ELSE request' = [request EXCEPT
                                      ![w].pc = AfterDependency(FALSE)]
    /\ UNCHANGED <<store, api_keys, clients, decided>>

\* get_airports_by_name: result is what db.execute returns, found is
\* result.unique().scalars().all()
GetAirportsByName(w) ==
    /\ request[w].pc = "get_airports_by_name"
    /\ sessions' = Executes(w, "airports")
    /\ \E store_fails \in BOOLEAN :
          IF store_fails
          THEN request' = [request EXCEPT ![w].response = ServerError,
                                          ![w].pc = "finally"]
          ELSE \E pattern \in {like_pattern(request[w].name)} :
               \E selected \in {Select(pattern)} :
               \E result \in {Execute(selected)} :
               \E found \in {ScalarsAll(result)} :
                  IF NoAirports(found)
                  THEN request' = [request EXCEPT
                                      ![w].response = NotFound,
                                      ![w].pc = "finally"]
                  ELSE request' = [request EXCEPT
                                      ![w].airport_list = found,
                                      ![w].pc = "serialize_response"]
    /\ UNCHANGED <<store, api_keys, clients, decided>>

\* the returned list is validated against list[AirportSchema] while the
\* dependencies are still entered; reading runways and frequencies issues
\* their lazy SELECTs through the request's session
SerializeResponse(w) ==
    /\ request[w].pc = "serialize_response"
    /\ IF sessions[request[w].db].state # "open"
       THEN \* DetachedInstanceError
            /\ request' = [request EXCEPT ![w].response = ServerError,
                                          ![w].pc = "finally"]
            /\ UNCHANGED sessions
       ELSE /\ sessions' = [sessions EXCEPT ![request[w].db].log =
                               @ \cup {"runways", "frequencies"}]
            /\ \E store_fails \in BOOLEAN :
                  IF store_fails
                  THEN request' = [request EXCEPT
                                      ![w].response = ServerError,
                                      ![w].pc = "finally"]
                  ELSE request' = [request EXCEPT
                                      ![w].response = Ok(request[w].airport_list),
                                      ![w].pc = "finally"]
    /\ UNCHANGED <<store, api_keys, clients, decided>>

\* get_db after its yield
CloseDb(w) ==
    /\ request[w].pc = "finally"
    /\ sessions' = [sessions EXCEPT ![request[w].db] =
                       get_db_finally(@, request[w].response.status # 200)]
    /\ request' = [request EXCEPT ![w].pc = "done"]
    /\ UNCHANGED <<store, api_keys, clients, decided>>

\* the response is sent; the request's objects are dropped, and a closed
\* Session with them
Respond(w) ==
    /\ request[w].pc = "done"
    /\ request' = [request EXCEPT ![w] = Idle]
    /\ sessions' = IF sessions[request[w].db].state = "closed"
                   THEN [sessions EXCEPT ![request[w].db] = NoSession]
                   ELSE sessions
    /\ decided' = Remember(w)
    /\ UNCHANGED <<store, api_keys, clients>>

---------------------------------------------------------------------------
(* The administration of API keys, outside the API *)

\* a key is issued
InsertKey ==
    /\ \E k \in APIKeyPool : api_keys' = api_keys \cup {k}
    /\ api_keys' # api_keys
    /\ api_keys' \in APIKeyTables
    /\ UNCHANGED <<store, clients, request, sessions, decided>>

\* "Keys can be activated/deactivated without deletion."
SetActive ==
    /\ \E k \in api_keys, b \in SqlBooleans :
          /\ b # k.is_active
          /\ api_keys' = (api_keys \ {k}) \cup {[k EXCEPT !.is_active = b]}
    /\ UNCHANGED <<store, clients, request, sessions, decided>>

\* a key is deleted
DeleteKey ==
    /\ \E k \in api_keys : api_keys' = api_keys \ {k}
    /\ UNCHANGED <<store, clients, request, sessions, decided>>

---------------------------------------------------------------------------
(* Specifications *)

AllClients == [api_key : HeaderValues, name : Names]

\* any store of at most MaxRows rows, one worker, every caller
Init ==
    /\ airports \in SUBSET AirportPool
    /\ navaids \in SUBSET NavaidPool
    /\ runways \in SUBSET RunwayPool
    /\ frequencies \in SUBSET FrequencyPool
    /\ airport_types \in SUBSET AirportTypePool
    /\ countries \in SUBSET CountryPool
    /\ regions \in SUBSET RegionPool
    /\ Cardinality(airports) + Cardinality(navaids) + Cardinality(runways)
         + Cardinality(frequencies) + Cardinality(airport_types)
         + Cardinality(countries) + Cardinality(regions) <= MaxRows
    /\ api_keys \in APIKeyTables
    /\ clients = AllClients
    /\ request = [w \in {1} |-> Idle]
    /\ sessions = [s \in SessionIds |-> NoSession]
    /\ decided = <<>>

ConcurrentClients == { [api_key |-> "k1", name |-> <<"_">>] }

\* MaxWorkers workers serving requests concurrently, the callers all sending
\* one request, over a store with or without the airport it selects
InitConcurrent ==
    /\ airports \in {{}, {a \in AirportPool : a.name = NULL}}
    /\ navaids = {}
    /\ runways = {}
    /\ frequencies = FrequencyPool
    /\ airport_types = {}
    /\ countries = CountryPool
    /\ regions = {}
    /\ api_keys \in APIKeyTables
    /\ clients = ConcurrentClients
    /\ request = [w \in Workers |-> Idle]
    /\ sessions = [s \in SessionIds |-> NoSession]
    /\ decided = <<>>

SequenceClients == { [api_key |-> "k1", name |-> <<"_">>],
                    [api_key |-> "k2", name |-> <<"_">>],
                    [api_key |-> None, name |-> <<"_">>] }

\* one worker serving one request after another while keys are issued,
\* activated, deactivated and deleted; the decisions on the stored keys are
\* kept as history
InitSequence ==
    /\ airports \in {{}, {a \in AirportPool : a.name = NULL}}
    /\ navaids = {}
    /\ runways = {}
    /\ frequencies = {}
    /\ airport_types = {}
    /\ countries = {}
    /\ regions = {}
    /\ api_keys \in APIKeyTables
    /\ clients = SequenceClients
    /\ request = [w \in {1} |-> Idle]
    /\ sessions = [s \in SessionIds |-> NoSession]
    /\ decided = [k \in StoredKeys |-> <<>>]

Next ==
    \/ \E w \in DOMAIN request : GetDb(w)
    \/ \E w \in DOMAIN request : VerifyApiKey(w)
    \/ \E w \in DOMAIN request : GetAirportsByName(w)
    \/ \E w \in DOMAIN request : SerializeResponse(w)
    \/ \E w \in DOMAIN request : CloseDb(w)
    \/ \E w \in DOMAIN request : Respond(w)
    \/ InsertKey
    \/ SetActive
    \/ DeleteKey

Spec == Init /\ [][Next]_vars

SpecConcurrent == InitConcurrent /\ [][Next]_vars

SpecSequence == InitSequence /\ [][Next]_vars

\* a request that was received is served to its end: each step of a worker
\* that can be taken is taken
Progress(w) ==
    WF_vars(VerifyApiKey(w) \/ GetAirportsByName(w) \/ SerializeResponse(w)
            \/ CloseDb(w) \/ Respond(w))

FairSpecConcurrent ==
    InitConcurrent /\ [][Next]_vars /\ \A w \in Workers : Progress(w)

---------------------------------------------------------------------------
(* What the claims speak of *)

InFlight == {w \in DOMAIN request : request[w].pc # "idle"}

\* the statements the request's session has executed so far
Log(w) == IF request[w].db = 0 THEN {} ELSE sessions[request[w].db].log

\* the store holds a row for this key with is_active = true
ActiveInStore(key) ==
    \E k \in api_keys : k.key = key /\ k.is_active = "true"

\* s occurs in t, letter case ignored; nothing occurs in a NULL column
Contains(s, t) ==
    /\ t # NULL
    /\ \E i \in 0..(Len(t) - Len(s)) :
          SubSeq(LowerStr(t), i + 1, i + Len(s)) = LowerStr(s)

\* the airports holding the query as a substring of name or of ident
SubstringMatches(name) ==
    {a \in airports : Contains(name, a.name) \/ Contains(name, a.ident)}

\* the airports the query of get_airports_by_name selects
Selected(name) == Select(like_pattern(name))

Idents(list) == {list[i].ident : i \in 1..Len(list)}

Occurrences(list, ident) ==
    Cardinality({i \in 1..Len(list) : list[i].ident = ident})

---------------------------------------------------------------------------
\* C1: a non-empty key is let through by verify_api_key exactly when the
\* store holds an active row for it at that moment; any other non-empty
\* key, inactive or unknown alike, gets the one 401 "Invalid or inactive
\* API key".
C1_AuthorizedIffActive ==
    [][\A w \in DOMAIN request :
          ( /\ request[w].pc = "verify_api_key"
            /\ request'[w].pc # "verify_api_key"
            /\ request[w].api_key \notin {None, ""}
            /\ request'[w].response # ServerError )
          => IF ActiveInStore(request[w].api_key)
             THEN /\ request'[w].pc = "get_airports_by_name"
                  /\ request'[w].response = NoResponse
             ELSE /\ request'[w].pc # "get_airports_by_name"
                  /\ request'[w].response.status = 401
                  /\ request'[w].response.detail = "Invalid or inactive API key"
      ]_vars

\* a request was rejected as invalid while the store holds its key, inactive
C1_Witness ==
    \E w \in DOMAIN request :
        /\ request[w].pc = "done"
        /\ request[w].response = InvalidKey
        /\ \E k \in api_keys :
              k.key = request[w].api_key /\ k.is_active = "false"

---------------------------------------------------------------------------
\* C2: the auth gate runs before the route handler.  A request that
\* verify_api_key rejected keeps its 401 to the end and its session never
\* executes the airport query, whatever the path parameter; and the airport
\* query is executed only by a session that looked the key up first.
C2_RejectedNeverQueries ==
    /\ [](\A w \in InFlight :
            /\ request[w].response.status = 401
                 => "airports" \notin Log(w) /\ request[w].airport_list = <<>>
            /\ "airports" \in Log(w) => "api_keys" \in Log(w))
    /\ [][\A w \in DOMAIN request :
            request[w].response.status = 401
              => request'[w].response.status = 401 \/ request'[w] = Idle
       ]_vars

\* a rejected request has ended whose query would have selected an airport
C2_Witness ==
    \E w \in DOMAIN request :
        /\ request[w].pc = "done"
        /\ request[w].response.status = 401
        /\ Selected(request[w].name) # {}

---------------------------------------------------------------------------
\* C3: the airports returned for a query S are exactly those holding S as a
\* case-insensitive substring of name or of ident, for every S, "%" and "_"
\* included.
C3_ExactlySubstringMatches ==
    \A w \in InFlight :
        /\ request[w].pc = "serialize_response"
             => Idents(request[w].airport_list)
                  = {a.ident : a \in SubstringMatches(request[w].name)}
        /\ request[w].response.status = 200
             => Idents(request[w].response.body)
                  = {a.ident : a \in SubstringMatches(request[w].name)}
        /\ request[w].response = NotFound
             => SubstringMatches(request[w].name) = {}

---------------------------------------------------------------------------
\* C4: every airport the query selects is in the returned list exactly once,
\* however many navaids join to it; no ident occurs twice in a 200 response.
C4_EachAirportOnce ==
    \A w \in InFlight :
        /\ request[w].pc = "serialize_response"
             => \A a \in Selected(request[w].name) :
                   Occurrences(request[w].airport_list, a.ident) = 1
        /\ request[w].response.status = 200
             => /\ \A a \in Selected(request[w].name) :
                      Occurrences(request[w].response.body, a.ident) = 1
                /\ \A i, j \in 1..Len(request[w].response.body) :
                      request[w].response.body[i].ident
                        = request[w].response.body[j].ident => i = j

\* a 200 response holds an airport to which two navaids join
C4_Witness ==
    \E w \in DOMAIN request :
        /\ request[w].response.status = 200
        /\ \E i \in 1..Len(request[w].response.body) :
              Cardinality(request[w].response.body[i].navaids) >= 2

---------------------------------------------------------------------------
---------------------------------------------------------------------------
---------------------------------------------------------------------------
\* C7: in a 200 response each of country, region and airport_type is the
\* reference row whose code equals the airport's iso_country, iso_region
\* and type, and is absent when there is no such row; the airport is in the
\* list either way.
C7_ReferenceRowsByCode ==
    \A w \in InFlight :
        request[w].response.status = 200 =>
            /\ \A i \in 1..Len(request[w].response.body) :
                  LET view == request[w].response.body[i]
                  IN  /\ view.country
                           = {c \in countries : c.code = view.iso_country}
                      /\ view.region
                           = {r \in regions : r.code = view.iso_region}
                      /\ view.airport_type
                           = {t \in airport_types : t.code = view.type}
                      /\ Cardinality(view.country) <= 1
                      /\ Cardinality(view.region) <= 1
                      /\ Cardinality(view.airport_type) <= 1
            /\ \A a \in Selected(request[w].name) :
                  a.ident \in Idents(request[w].response.body)

\* a 200 response holds an airport with its country attached and its
\* region absent although iso_region names one
C7_Witness ==
    \E w \in DOMAIN request :
        /\ request[w].response.status = 200
        /\ \E i \in 1..Len(request[w].response.body) :
              /\ request[w].response.body[i].country # {}
              /\ request[w].response.body[i].region = {}
              /\ request[w].response.body[i].iso_region # NULL

---------------------------------------------------------------------------
\* C8: a request without x-api-key, or with an empty one, is rejected with
\* 401 "Missing API key"; its session executes no statement, whatever keys
\* the store holds, and the route handler is not reached.
C8_MissingKeyNoLookup ==
    \A w \in InFlight :
        request[w].api_key \in {None, ""} =>
            /\ Log(w) = {}
            /\ request[w].pc \in {"verify_api_key", "finally", "done"}
            /\ request[w].pc \in {"finally", "done"}
                 => request[w].response = MissingKey

\* a request with an empty header was rejected as missing while the store
\* holds an active key
C8_Witness ==
    \E w \in DOMAIN request :
        /\ request[w].pc = "done"
        /\ request[w].api_key = ""
        /\ request[w].response = MissingKey
        /\ \E k \in api_keys : k.is_active = "true"

---------------------------------------------------------------------------
\* C9: in a 200 response the runways and the frequencies of an airport are
\* exactly the Runway and Frequency rows whose airport_ident equals its
\* ident (an empty collection when there are none); they are read through
\* the request's session while it is open.
C9_RunwaysAndFrequenciesLoaded ==
    \A w \in InFlight :
        /\ request[w].pc = "serialize_response"
             => sessions[request[w].db].state = "open"
        /\ request[w].response.status = 200 =>
             /\ {"runways", "frequencies"} \subseteq Log(w)
             /\ \A i \in 1..Len(request[w].response.body) :
                   LET view == request[w].response.body[i]
                   IN  /\ view.runways
                            = {r \in runways : r.airport_ident = view.ident}
                       /\ view.frequencies
                            = {f \in frequencies : f.airport_ident = view.ident}

\* a 200 response holds an airport with a runway and no frequency while the
\* store holds a frequency of another airport
C9_Witness ==
    \E w \in DOMAIN request :
        /\ request[w].response.status = 200
        /\ \E i \in 1..Len(request[w].response.body) :
              /\ request[w].response.body[i].runways # {}
              /\ request[w].response.body[i].frequencies = {}
        /\ frequencies # {}

---------------------------------------------------------------------------
\* C10: the session get_db opened for a request is closed, once, on every
\* way out of the request (401, 404, 200, an exception of the store): when
\* the response is ready to be sent its session is closed and was closed
\* once; an open session always belongs to exactly one request still being
\* served; no two requests hold one session; and every open session is
\* eventually closed.
C10_Owners(s) ==
    {w \in DOMAIN request :
        /\ request[w].db = s
        /\ request[w].pc \in {"verify_api_key", "get_airports_by_name",
                              "serialize_response", "finally"}}

C10_SessionClosedOnce ==
    /\ [](/\ \A w \in DOMAIN request :
               request[w].pc = "done" =>
                   /\ sessions[request[w].db].state = "closed"
                   /\ sessions[request[w].db].closes = 1
          /\ \A s \in SessionIds :
               /\ sessions[s].closes <= 1
               /\ sessions[s].state = "open" => Cardinality(C10_Owners(s)) = 1
          /\ \A w1, w2 \in DOMAIN request :
               (w1 # w2 /\ request[w1].db # 0 /\ request[w2].db # 0)
                   => request[w1].db # request[w2].db)
    /\ \A s \in SessionIds :
          (sessions[s].state = "open") ~> (sessions[s].state # "open")

\* two requests served side by side have ended, one by an exception of the
\* store and one in 404, each with its own session closed
C10_Witness ==
    \E w1, w2 \in DOMAIN request :
        /\ w1 # w2
        /\ request[w1].pc = "done" /\ request[w1].response = ServerError
        /\ request[w2].pc = "done" /\ request[w2].response = NotFound
        /\ sessions[request[w1].db].state = "closed"
        /\ sessions[request[w2].db].state = "closed"

---------------------------------------------------------------------------
\* C11: the decision of verify_api_key is taken from the store on every
\* request and never from an earlier decision.  In a sequence of requests
\* interleaved with changes to the key rows, a non-empty key is let through
\* exactly when it is active in the store at that moment: a key let through
\* before and inactive or deleted since is rejected, a key rejected before
\* and active now is let through; and a worker between two requests holds
\* nothing of the request it served.
C11_LastDecision(key) ==
    IF key \in DOMAIN decided /\ decided[key] # <<>>
    THEN decided[key][Len(decided[key])]
    ELSE "none"

C11_DecidedAfresh ==
    /\ [](\A w \in DOMAIN request :
            request[w].pc = "idle" => request[w] = Idle)
    /\ [][\A w \in DOMAIN request :
            ( /\ request[w].pc = "verify_api_key"
              /\ request'[w].pc # "verify_api_key"
              /\ request[w].api_key \notin {None, ""}
              /\ request'[w].response # ServerError )
            => LET key      == request[w].api_key
                   accepted == request'[w].pc = "get_airports_by_name"
                   rejected == request'[w].response = InvalidKey
               IN  /\ accepted <=> ActiveInStore(key)
                   /\ rejected <=> ~ActiveInStore(key)
                   /\ ( C11_LastDecision(key) = "authorized"
                        /\ ~ActiveInStore(key) ) => rejected
                   /\ ( C11_LastDecision(key) = "rejected"
                        /\ ActiveInStore(key) ) => accepted
       ]_vars

\* a key was let through, then rejected, and is let through again in the
\* request being served now
C11_Witness ==
    \E w \in DOMAIN request :
        /\ request[w].pc = "done"
        /\ request[w].api_key \in DOMAIN decided
        /\ decided[request[w].api_key] = <<"authorized", "rejected">>
        /\ Decision(w) = "authorized"

=============================================================================
